---- MODULE Spec2Model ----
(***************************************************************************)
(* Model of tripo_generate.py: the command-line driver main(), the two     *)
(* pipelines image_to_3d / text_to_3d and the TripoClient operations       *)
(* upload_image, create_task, poll_task, download_model and get_balance.   *)
(*                                                                         *)
(* The remote service and the user are the environment: every request      *)
(* receives one response kind chosen nondeterministically, a user          *)
(* interrupt may arrive at every blocking call, and the clock advances     *)
(* while poll_task sleeps or waits for a status response.                  *)
(***************************************************************************)
EXTENDS Integers, Sequences, FiniteSets, TLC

VARIABLES
    args,           \* the parsed command line and the environment variable
    entry,          \* outermost frame: "main", or "poll_task" when called directly
    pc,             \* position of the program
    requests,       \* number of HTTP requests issued, per endpoint
    resp,           \* the last response received: [op, kind]
    now,            \* time.time(), in seconds
    start,          \* poll_task: start
    timeout,        \* poll_task: parameter timeout
    poll_interval,  \* poll_task: parameter poll_interval
    lat,            \* the longest a status request may take, in seconds
    fetch_at,       \* elapsed time at which the last status request was issued
    last_status,    \* poll_task: status of the last fetched record
    first_terminal, \* index of the first status response that was terminal, 0 if none
    poll_result,    \* how poll_task ended
    image_token,    \* image_to_3d: upload_image returned a token
    task_id,        \* create_task returned a task id
    task_data,      \* the record poll_task returned
    balance,        \* get_balance returned the balance
    model_url,      \* download_model: model_url
    outfile,        \* state of the output path on the local filesystem
    exc,            \* the exception raised: [type, origin]
    outcome,        \* what the process printed last before it ended
    errors_printed, \* number of "[tripo] ERROR: ..." lines printed
    exit_code,      \* exit status of the process, meaningful once pc = "exited"
    output_path,    \* main: output_path, a sequence of characters
    ready_at        \* the time at which the task reaches success on the service

vars == <<args, entry, pc, requests, resp, now, start, timeout, poll_interval,
          lat, fetch_at, last_status, first_terminal, poll_result, image_token,
          task_id, task_data, balance, model_url, outfile, exc, outcome,
          errors_printed, exit_code, output_path, ready_at>>

----------------------------------------------------------------------------
(* Bounds *)

MaxTimeout == 5     \* largest timeout given on the command line or to poll_task
MaxInterval == 3    \* largest poll_interval given to poll_task directly
MaxLatency == 1     \* longest status request when poll_task is called directly
MaxPathLen == 5     \* longest --output path drawn from PathChars

----------------------------------------------------------------------------
(* Program constants *)

DefaultTimeout == 600
DefaultPollInterval == 3
ExitOk == 0
ExitError == 1
ExitUsage == 2
ExitSigint == 130

Formats == {"glb", "fbx", "obj", "stl", "usdz"}

Endpoints == {"upload", "task", "status", "download", "balance"}

NoKey == "None"
KeyValues == {NoKey, "", "tsk_key"}

Absent == "<absent>"
OutputKeys == {"pbr_model", "base_model", "model"}
UrlOf == [pbr_model |-> "P", base_model |-> "A", model |-> "B"]
\* a task output mapping: every key is absent, empty, or holds its own URL
Outputs == {o \in [OutputKeys -> {Absent, "", "P", "A", "B"}] :
                \A k \in OutputKeys : o[k] \in {Absent, "", UrlOf[k]}}

NonTerminal == {"queued", "running", "None", "banana"}
FailureStatuses == {"failed", "cancelled", "unknown"}
Statuses == {"success"} \cup FailureStatuses \cup NonTerminal

NoExc == [type |-> "none", origin |-> "none"]
NoResp == [op |-> "none", kind |-> "none"]
NoTask == [status |-> "none", output |-> [k \in OutputKeys |-> Absent]]

TimeoutArgs == {MaxTimeout, DefaultTimeout}

\* the text of --output, a sequence of characters
PathChars == {"m", ".", "/", "G", "l", "b"}
ShortPaths == UNION {[1..n -> PathChars] : n \in 0..MaxPathLen}
ExamplePaths == {<<"m", "o", "d", "e", "l">>,
                 <<"m", "o", "d", "e", "l", ".", "G", "L", "B">>}
Paths == ShortPaths \cup ExamplePaths
\* the --output texts of the pipeline runs: a file name, and the empty text
RunPaths == {<<"m">>, <<>>}

Args == [image: {"None", "file", "nofile"},
         prompt: {"None", "text"},
         output: {"None", "path"},
         format: {"glb", "xyz"},
         api_key: KeyValues,
         env_key: KeyValues,
         timeout: TimeoutArgs,
         balance: BOOLEAN,
         path: RunPaths]

NoArgs == [image |-> "None", prompt |-> "None", output |-> "None",
           format |-> "glb", api_key |-> NoKey, env_key |-> NoKey,
           timeout |-> DefaultTimeout, balance |-> FALSE, path |-> <<>>]

----------------------------------------------------------------------------
(* main: argument parsing and credential lookup *)

\* parser.parse_args(): the input group is required and mutually exclusive,
\* --output is required, --format is one of the choices
ParseOk(a) ==
    /\ (a.image = "None") # (a.prompt = "None")
    /\ a.output # "None"
    /\ a.format \in Formats

\* args.api_key or os.environ.get("TRIPO_API_KEY")
ApiKey(a) ==
    IF a.api_key \notin {NoKey, ""} THEN a.api_key ELSE a.env_key

HasKey(a) == ApiKey(a) \notin {NoKey, ""}

----------------------------------------------------------------------------
(* How an exception leaves the program *)

\* the statements of main inside try: ... except (lines 289-310)
InTry(origin) == origin \in {"upload", "task", "status", "download"}

\* Handler whose except Exception branch prints the error and falls off
\* the end of main
HandlerNoExit(e) ==
    IF InTry(e.origin)
    THEN IF e.type = "KeyboardInterrupt"
         THEN {[outcome |-> "cancelled", errors |-> 0, code |-> ExitError]}
         ELSE {[outcome |-> "error", errors |-> 1, code |-> ExitOk]}
    ELSE IF e.type = "KeyboardInterrupt"
         THEN {[outcome |-> "unhandled_interrupt", errors |-> 0, code |-> c] :
                    c \in {ExitError, ExitSigint}}
         ELSE {[outcome |-> "traceback", errors |-> 0, code |-> ExitError]}

\* except KeyboardInterrupt / except Exception of main, and the
\* interpreter's handling of an exception that escapes main
Handler(e) ==
    IF InTry(e.origin)
    THEN IF e.type = "KeyboardInterrupt"
         THEN {[outcome |-> "cancelled", errors |-> 0, code |-> ExitError]}
         ELSE {[outcome |-> "error", errors |-> 1, code |-> ExitError]}
    ELSE IF e.type = "KeyboardInterrupt"
         THEN {[outcome |-> "unhandled_interrupt", errors |-> 0, code |-> c] :
                    c \in {ExitError, ExitSigint}}
         ELSE {[outcome |-> "traceback", errors |-> 0, code |-> ExitError]}

\* raise e, from an operation of the client
Raise(e) ==
    /\ exc' = e
    /\ IF entry = "main"
       THEN \E h \in Handler(e) :
                /\ pc' = "exited"
                /\ outcome' = h.outcome
                /\ errors_printed' = errors_printed + h.errors
                /\ exit_code' = h.code
       ELSE /\ pc' = "raised"
            /\ UNCHANGED <<outcome, errors_printed, exit_code>>

\* sys.exit(code) or return from main
Exit(o, errs, code) ==
    /\ pc' = "exited"
    /\ outcome' = o
    /\ errors_printed' = errors_printed + errs
    /\ exit_code' = code

Issue(ep) == requests' = [requests EXCEPT ![ep] = @ + 1]

\* the outcomes of an HTTP request whose response carries JSON
JsonResponses == {"ok", "http_error", "service_error", "malformed", "interrupt"}

\* Checked without the test of the service code
CheckedHttpOnly(r) ==
    CASE r = "interrupt" -> "KeyboardInterrupt"
      [] r = "http_error" -> "HTTPError"
      [] r = "malformed" -> "KeyError"
      [] OTHER -> "none"

\* Checked without raise_for_status
CheckedNoRaiseForStatus(r) ==
    CASE r = "interrupt" -> "KeyboardInterrupt"
      [] r = "service_error" -> "RuntimeError"
      [] r = "malformed" -> "KeyError"
      [] OTHER -> "none"

\* resp.raise_for_status(); data = resp.json(); if data.get("code") != 0: raise
\* the exception type a response of kind r leads to, "none" when the call goes on
Checked(r) ==
    CASE r = "interrupt" -> "KeyboardInterrupt"
      [] r = "http_error" -> "HTTPError"
      [] r = "service_error" -> "RuntimeError"
      [] r = "malformed" -> "KeyError"
      [] OTHER -> "none"

----------------------------------------------------------------------------
Init ==
    /\ args \in Args
    /\ entry = "main"
    /\ pc = "main"
    /\ requests = [ep \in Endpoints |-> 0]
    /\ resp = NoResp
    /\ now = 0
    /\ start = 0
    /\ timeout = 0
    /\ poll_interval = 0
    /\ lat = 0
    /\ fetch_at = 0
    /\ last_status = "none"
    /\ first_terminal = 0
    /\ poll_result = "none"
    /\ image_token = FALSE
    /\ task_id = FALSE
    /\ task_data = NoTask
    /\ balance = FALSE
    /\ model_url = "None"
    /\ outfile = "untouched"
    /\ exc = NoExc
    /\ outcome = "none"
    /\ errors_printed = 0
    /\ exit_code = 0
    /\ output_path = <<>>
    /\ ready_at = 0

----------------------------------------------------------------------------
(* main: the extension of the output path (lines 278-283) *)

\* str.lower(), on the letters of PathChars and ExamplePaths
LowerChar(c) ==
    CASE c = "G" -> "g"
      [] c = "L" -> "l"
      [] c = "B" -> "b"
      [] OTHER -> c

Lower(s) == [i \in 1..Len(s) |-> LowerChar(s[i])]

\* str.endswith
EndsWith(s, t) ==
    /\ Len(s) >= Len(t)
    /\ SubSeq(s, Len(s) - Len(t) + 1, Len(s)) = t

FormatChars == [glb |-> <<"g", "l", "b">>, fbx |-> <<"f", "b", "x">>,
                obj |-> <<"o", "b", "j">>, stl |-> <<"s", "t", "l">>,
                usdz |-> <<"u", "s", "d", "z">>]

\* expected_ext = f".{args.format}"
ExpectedExt(f) == <<".">> \o FormatChars[f]

\* pathlib, POSIX flavour: the number of "/" at the head of s
LeadingSlashes(s) ==
    CHOOSE n \in 0..Len(s) :
        /\ \A i \in 1..n : s[i] = "/"
        /\ n < Len(s) => s[n + 1] # "/"

\* pathlib: the root of a path; exactly two leading slashes are kept
Root(s) ==
    IF LeadingSlashes(s) = 2 THEN <<"/", "/">>
    ELSE IF LeadingSlashes(s) >= 1 THEN <<"/">>
    ELSE <<>>

\* s.split("/")
RECURSIVE SplitParts(_)
SplitParts(s) ==
    IF \A i \in 1..Len(s) : s[i] # "/" THEN <<s>>
    ELSE LET i == CHOOSE k \in 1..Len(s) :
                        s[k] = "/" /\ \A j \in 1..(k - 1) : s[j] # "/"
         IN <<SubSeq(s, 1, i - 1)>> \o SplitParts(SubSeq(s, i + 1, Len(s)))

IsComponent(x) == x # <<>> /\ x # <<".">>

\* pathlib: the components after the root; empty and "." components are dropped
Parts(s) ==
    SelectSeq(SplitParts(SubSeq(s, LeadingSlashes(s) + 1, Len(s))), IsComponent)

\* "/".join(parts)
RECURSIVE JoinParts(_)
JoinParts(parts) ==
    IF parts = <<>> THEN <<>>
    ELSE IF Len(parts) = 1 THEN parts[1]
    ELSE parts[1] \o <<"/">> \o JoinParts(Tail(parts))

\* str(Path): root and components, "." for the empty path
PathStr(root, parts) ==
    IF root \o JoinParts(parts) = <<>> THEN <<".">> ELSE root \o JoinParts(parts)

\* PurePath.suffix of a final component: from the last dot, when that dot is
\* neither the first nor the last character
Suffix(name) ==
    LET dots == {i \in 1..Len(name) : name[i] = "."}
        last == CHOOSE i \in dots : \A j \in dots : j <= i
    IN IF dots # {} /\ 1 < last /\ last < Len(name)
       THEN SubSeq(name, last, Len(name)) ELSE <<>>

\* PurePath.name is not empty: with_suffix raises ValueError otherwise
HasName(p) == Parts(p) # <<>>

\* str(Path(p).with_suffix(ext)), for a path with a name
WithSuffix(p, ext) ==
    LET parts == Parts(p)
        name == parts[Len(parts)]
        stem == SubSeq(name, 1, Len(name) - Len(Suffix(name)))
    IN PathStr(Root(p), SubSeq(parts, 1, Len(parts) - 1) \o <<stem \o ext>>)

\* the path is rewritten: not output_path.lower().endswith(expected_ext)
NeedsSuffix(p, f) == ~EndsWith(Lower(p), ExpectedExt(f))

\* NormalizeOutput with the test of the extension made on the path as given
NormalizeOutputCaseSensitive(p, f) ==
    IF EndsWith(p, ExpectedExt(f)) THEN p ELSE WithSuffix(p, ExpectedExt(f))

\* lines 279-283: the output path main hands to the pipeline
NormalizeOutput(p, f) ==
    IF NeedsSuffix(p, f) THEN WithSuffix(p, ExpectedExt(f)) ELSE p

----------------------------------------------------------------------------
\* MainDecision with the balance branch placed after the pipeline
MainDecisionNoBalance(a) ==
    IF ~ParseOk(a) THEN "usage"
    ELSE IF ~HasKey(a) THEN "no_key"
    ELSE IF a.image = "nofile" THEN "no_image"
    ELSE IF NeedsSuffix(a.path, a.format) /\ ~HasName(a.path) THEN "bad_output"
    ELSE IF a.image # "None" THEN "upload_image"
    ELSE "create_task"

\* MainDecision without the test of the credential
MainDecisionNoKeyCheck(a) ==
    IF ~ParseOk(a) THEN "usage"
    ELSE IF a.balance THEN "get_balance"
    ELSE IF a.image = "nofile" THEN "no_image"
    ELSE IF NeedsSuffix(a.path, a.format) /\ ~HasName(a.path) THEN "bad_output"
    ELSE IF a.image # "None" THEN "upload_image"
    ELSE "create_task"

\* main, lines 257-290: where main goes once the command line is read
MainDecision(a) ==
    IF ~ParseOk(a) THEN "usage"
    ELSE IF ~HasKey(a) THEN "no_key"
    ELSE IF a.balance THEN "get_balance"
    ELSE IF a.image = "nofile" THEN "no_image"
    ELSE IF NeedsSuffix(a.path, a.format) /\ ~HasName(a.path) THEN "bad_output"
    ELSE IF a.image # "None" THEN "upload_image"
    ELSE "create_task"

\* main, lines 230-288: everything before the first request
main ==
    /\ pc = "main"
    /\ CASE MainDecision(args) = "usage" ->
                /\ Exit("usage", 0, ExitUsage)
                /\ UNCHANGED <<exc, output_path>>
         [] MainDecision(args) = "no_key" ->
                /\ Exit("no_key", 1, ExitError)
                /\ UNCHANGED <<exc, output_path>>
         [] MainDecision(args) = "no_image" ->
                /\ Exit("no_image", 1, ExitError)
                /\ UNCHANGED <<exc, output_path>>
         [] MainDecision(args) = "bad_output" ->
                /\ Raise([type |-> "ValueError", origin |-> "main"])
                /\ UNCHANGED output_path
         [] MainDecision(args) = "get_balance" ->
                /\ pc' = "get_balance"
                /\ UNCHANGED <<exc, output_path, outcome, errors_printed, exit_code>>
         [] OTHER ->
                /\ pc' = MainDecision(args)
                /\ output_path' = NormalizeOutput(args.path, args.format)
                /\ UNCHANGED <<exc, outcome, errors_printed, exit_code>>
    /\ UNCHANGED <<ready_at, args, entry, requests, resp, now, start, timeout,
                   poll_interval, lat, fetch_at, last_status, first_terminal,
                   poll_result, image_token, task_id, task_data, balance,
                   model_url, outfile>>

\* TripoClient.get_balance and the rest of the balance branch of main
get_balance ==
    /\ pc = "get_balance"
    /\ Issue("balance")
    /\ \E r \in JsonResponses :
        /\ resp' = [op |-> "balance", kind |-> r]
        /\ IF Checked(r) = "none"
           THEN /\ balance' = TRUE
                /\ exc' = exc
                /\ Exit("balance", 0, ExitOk)
           ELSE /\ Raise([type |-> Checked(r), origin |-> "balance"])
                /\ balance' = balance
    /\ UNCHANGED <<ready_at, output_path, args, entry, now, start, timeout, poll_interval, lat,
                   fetch_at, last_status, first_terminal, poll_result,
                   image_token, task_id, task_data, model_url, outfile>>

\* TripoClient.upload_image, called by image_to_3d
upload_image ==
    /\ pc = "upload_image"
    /\ Issue("upload")
    /\ \E r \in JsonResponses :
        /\ resp' = [op |-> "upload", kind |-> r]
        /\ IF Checked(r) = "none"
           THEN /\ image_token' = TRUE
                /\ pc' = "create_task"
                /\ UNCHANGED <<exc, outcome, errors_printed, exit_code>>
           ELSE /\ Raise([type |-> Checked(r), origin |-> "upload"])
                /\ image_token' = image_token
    /\ UNCHANGED <<ready_at, output_path, args, entry, now, start, timeout, poll_interval, lat,
                   fetch_at, last_status, first_terminal, poll_result,
                   task_id, task_data, balance, model_url, outfile>>

\* TripoClient.create_task, called by image_to_3d and text_to_3d
create_task ==
    /\ pc = "create_task"
    /\ Issue("task")
    /\ \E r \in JsonResponses :
        /\ resp' = [op |-> "task", kind |-> r]
        /\ IF Checked(r) = "none"
           THEN /\ task_id' = TRUE
                /\ pc' = "call_poll_task"
                /\ UNCHANGED <<exc, outcome, errors_printed, exit_code>>
           ELSE /\ Raise([type |-> Checked(r), origin |-> "task"])
                /\ task_id' = task_id
    /\ UNCHANGED <<ready_at, output_path, args, entry, now, start, timeout, poll_interval, lat,
                   fetch_at, last_status, first_terminal, poll_result,
                   image_token, task_data, balance, model_url, outfile>>

----------------------------------------------------------------------------
(* TripoClient.poll_task *)

\* image_to_3d line 201 and text_to_3d line 222, client.poll_task(task_id):
\* the arguments the pipelines pass for poll_interval and timeout
PipelinePollArgs(a) ==
    [poll_interval |-> DefaultPollInterval, timeout |-> DefaultTimeout]

\* entry of poll_task from a pipeline: start = time.time()
call_poll_task ==
    /\ pc = "call_poll_task"
    /\ timeout' = PipelinePollArgs(args).timeout
    /\ poll_interval' = PipelinePollArgs(args).poll_interval
    /\ start' = now
    /\ pc' = "poll_loop"
    /\ UNCHANGED <<ready_at, output_path, args, entry, requests, resp, now, lat, fetch_at,
                   last_status, first_terminal, poll_result, image_token,
                   task_id, task_data, balance, model_url, outfile, exc,
                   outcome, errors_printed, exit_code>>

\* Expired with >= in place of >
ExpiredAtLimit(elapsed, limit) == elapsed >= limit

\* Expired that allows one more interval past the limit
ExpiredAfterGrace(elapsed, limit) == elapsed > limit + poll_interval

\* elapsed = time.time() - start; if elapsed > timeout
Expired(elapsed, limit) == elapsed > limit

\* top of the loop of poll_task: the deadline check
poll_check ==
    /\ pc = "poll_loop"
    /\ IF Expired(now - start, timeout)
       THEN /\ poll_result' = "timeout"
            /\ Raise([type |-> "TimeoutError", origin |-> "status"])
       ELSE /\ pc' = "poll_get"
            /\ UNCHANGED <<poll_result, exc, outcome, errors_printed, exit_code>>
    /\ UNCHANGED <<ready_at, output_path, args, entry, requests, resp, now, start, timeout,
                   poll_interval, lat, fetch_at, last_status, first_terminal,
                   task_id, image_token, task_data, balance, model_url, outfile>>

\* StatusStep with "unknown" left out of the failure statuses
StatusStepNoUnknown(s) ==
    IF s = "success" THEN "return"
    ELSE IF s \in {"failed", "cancelled"} THEN "raise"
    ELSE "sleep"

\* StatusStep that retries on queued and running only and fails on the rest
StatusStepKnownOnly(s) ==
    IF s = "success" THEN "return"
    ELSE IF s \in {"queued", "running"} THEN "sleep"
    ELSE "raise"

\* StatusStep that returns the record on unknown as it does on success
StatusStepReturnsUnknown(s) ==
    IF s \in {"success", "unknown"} THEN "return"
    ELSE IF s \in {"failed", "cancelled"} THEN "raise"
    ELSE "sleep"

\* what poll_task does with a fetched status (lines 119-129)
StatusStep(s) ==
    IF s = "success" THEN "return"
    ELSE IF s \in {"failed", "cancelled", "unknown"} THEN "raise"
    ELSE "sleep"

\* the terminal statuses of the service
Terminal == {"success", "failed", "cancelled", "unknown"}

\* the status request of poll_task and the handling of its response
poll_get ==
    /\ pc = "poll_get"
    /\ Issue("status")
    /\ fetch_at' = now - start
    /\ \E d \in 0..lat : now' = now + d
    /\ \E r \in JsonResponses :
        /\ resp' = [op |-> "status", kind |-> r]
        /\ IF Checked(r) # "none"
           THEN /\ poll_result' = IF r = "interrupt" THEN "interrupt" ELSE "error"
                /\ Raise([type |-> Checked(r), origin |-> "status"])
                /\ UNCHANGED <<last_status, first_terminal, task_data>>
           ELSE \E s \in Statuses :
                /\ s = "success" => now' >= ready_at
                /\ last_status' = s
                /\ first_terminal' =
                        IF first_terminal = 0 /\ s \in Terminal
                        THEN requests["status"] + 1 ELSE first_terminal
                /\ CASE StatusStep(s) = "return" ->
                            /\ \E o \in Outputs :
                                    task_data' = [status |-> s, output |-> o]
                            /\ poll_result' = "returned"
                            /\ pc' = IF entry = "main" THEN "download_model"
                                     ELSE "returned"
                            /\ UNCHANGED <<exc, outcome, errors_printed, exit_code>>
                     [] StatusStep(s) = "raise" ->
                            /\ poll_result' = "failed"
                            /\ Raise([type |-> "RuntimeError", origin |-> "status"])
                            /\ UNCHANGED task_data
                     [] OTHER ->
                            /\ pc' = "poll_sleep"
                            /\ UNCHANGED <<poll_result, task_data, exc, outcome,
                                           errors_printed, exit_code>>
    /\ UNCHANGED <<ready_at, output_path, args, entry, start, timeout, poll_interval, lat,
                   image_token, task_id, balance, model_url, outfile>>

\* time.sleep(poll_interval)
poll_sleep ==
    /\ pc = "poll_sleep"
    /\ \/ /\ now' = now + poll_interval
          /\ pc' = "poll_loop"
          /\ UNCHANGED <<poll_result, exc, outcome, errors_printed, exit_code>>
       \/ /\ poll_result' = "interrupt"
          /\ Raise([type |-> "KeyboardInterrupt", origin |-> "status"])
          /\ now' = now
    /\ UNCHANGED <<ready_at, output_path, args, entry, requests, resp, start, timeout, poll_interval,
                   lat, fetch_at, last_status, first_terminal, image_token,
                   task_id, task_data, balance, model_url, outfile>>

----------------------------------------------------------------------------
(* TripoClient.download_model *)

Truthy(v) == v \notin {Absent, "", "None"}

\* the keys tried when output.get("model") is empty
KeyPriority == <<"pbr_model", "base_model", "model">>

\* for key in [...]: if key in output and output[key]: model_url = output[key]; break
RECURSIVE FirstTruthy(_, _)
FirstTruthy(o, keys) ==
    IF keys = <<>> THEN "None"
    ELSE IF Truthy(o[Head(keys)]) THEN o[Head(keys)]
    ELSE FirstTruthy(o, Tail(keys))

\* output.get("model")
GetModel(o) == IF o["model"] = Absent THEN "None" ELSE o["model"]

\* SelectUrl without the first lookup of "model": the loop over the keys only
SelectUrlLoopOnly(o) == FirstTruthy(o, KeyPriority)

\* lines 133-144: the value of model_url before the final check
SelectUrl(o) ==
    IF Truthy(GetModel(o)) THEN GetModel(o)
    ELSE IF FirstTruthy(o, KeyPriority) # "None" THEN FirstTruthy(o, KeyPriority)
    ELSE GetModel(o)

\* download_model up to the request: the choice of the URL
download_model ==
    /\ pc = "download_model"
    /\ model_url' = SelectUrl(task_data.output)
    /\ IF ~Truthy(SelectUrl(task_data.output))
       THEN Raise([type |-> "RuntimeError", origin |-> "download"])
       ELSE /\ pc' = "download_get"
            /\ UNCHANGED <<exc, outcome, errors_printed, exit_code>>
    /\ UNCHANGED <<ready_at, output_path, args, entry, requests, resp, now, start, timeout,
                   poll_interval, lat, fetch_at, last_status, first_terminal,
                   poll_result, image_token, task_id, task_data, balance, outfile>>

\* download_get with os.makedirs called before the request
download_get_makedirs_first ==
    /\ pc = "download_get"
    /\ Issue("download")
    /\ outfile' = "dirs"
    /\ \E r \in {"ok", "http_error", "interrupt"} :
        /\ resp' = [op |-> "download", kind |-> r]
        /\ IF Checked(r) = "none"
           THEN /\ pc' = "download_write"
                /\ UNCHANGED <<exc, outcome, errors_printed, exit_code>>
           ELSE Raise([type |-> Checked(r), origin |-> "download"])
    /\ UNCHANGED <<ready_at, output_path, args, entry, now, start, timeout, poll_interval,
                   lat, fetch_at, last_status, first_terminal, poll_result,
                   image_token, task_id, task_data, balance, model_url>>

\* resp = self.session.get(model_url, stream=True); resp.raise_for_status()
download_get ==
    /\ pc = "download_get"
    /\ Issue("download")
    /\ \E r \in {"ok", "http_error", "interrupt"} :
        /\ resp' = [op |-> "download", kind |-> r]
        /\ IF Checked(r) = "none"
           THEN /\ pc' = "download_write"
                /\ UNCHANGED <<exc, outcome, errors_printed, exit_code>>
           ELSE Raise([type |-> Checked(r), origin |-> "download"])
    /\ UNCHANGED <<ready_at, output_path, args, entry, now, start, timeout, poll_interval, lat,
                   fetch_at, last_status, first_terminal, poll_result,
                   image_token, task_id, task_data, balance, model_url, outfile>>

\* lines 156-172 and the return to main: os.makedirs, open, the chunk loop
download_write ==
    /\ pc = "download_write"
    /\ \/ /\ outfile' = "written"
          /\ exc' = exc
          /\ Exit("done", 0, ExitOk)
       \/ \E t \in {"OSError", "KeyboardInterrupt"} :
          \E f \in {"untouched", "dirs", "partial"} :
            /\ outfile' = f
            /\ Raise([type |-> t, origin |-> "download"])
    /\ UNCHANGED <<ready_at, output_path, args, entry, requests, resp, now, start, timeout,
                   poll_interval, lat, fetch_at, last_status, first_terminal,
                   poll_result, image_token, task_id, task_data, balance,
                   model_url>>

----------------------------------------------------------------------------
Next ==
    \/ main
    \/ get_balance
    \/ upload_image
    \/ create_task
    \/ call_poll_task
    \/ poll_check
    \/ poll_get
    \/ poll_sleep
    \/ download_model
    \/ download_get
    \/ download_write

Spec == Init /\ [][Next]_vars

\* the times at which the task may reach success, some past every deadline
ReadyTimes == 0..(MaxTimeout + MaxLatency + 1)

\* poll_task called directly, with arguments of the caller's choice
PollInit ==
    /\ args = NoArgs
    /\ entry = "poll_task"
    /\ pc = "poll_loop"
    /\ requests = [ep \in Endpoints |-> 0]
    /\ resp = NoResp
    /\ now = 0
    /\ start = 0
    /\ timeout \in 0..MaxTimeout
    /\ poll_interval \in 1..MaxInterval
    /\ lat \in 0..MaxLatency
    /\ fetch_at = 0
    /\ last_status = "none"
    /\ first_terminal = 0
    /\ poll_result = "none"
    /\ image_token = FALSE
    /\ task_id = TRUE
    /\ task_data = NoTask
    /\ balance = FALSE
    /\ model_url = "None"
    /\ outfile = "untouched"
    /\ exc = NoExc
    /\ outcome = "none"
    /\ errors_printed = 0
    /\ exit_code = 0
    /\ output_path = <<>>
    /\ ready_at \in ReadyTimes

PollNext ==
    \/ poll_check
    \/ poll_get
    \/ poll_sleep

PollSpec == PollInit /\ [][PollNext]_vars

\* the program is sequential: a step that can be taken is taken
PollFairSpec == PollSpec /\ WF_vars(PollNext)

\* main run on every output path and format, up to its first request
NormArgs == [image: {"None"}, prompt: {"text"}, output: {"path"},
             format: Formats, api_key: {"tsk_key"}, env_key: {NoKey},
             timeout: {DefaultTimeout}, balance: {FALSE}, path: Paths]

NormInit ==
    /\ args \in NormArgs
    /\ entry = "main"
    /\ pc = "main"
    /\ requests = [ep \in Endpoints |-> 0]
    /\ resp = NoResp
    /\ now = 0
    /\ start = 0
    /\ timeout = 0
    /\ poll_interval = 0
    /\ lat = 0
    /\ fetch_at = 0
    /\ last_status = "none"
    /\ first_terminal = 0
    /\ poll_result = "none"
    /\ image_token = FALSE
    /\ task_id = FALSE
    /\ task_data = NoTask
    /\ balance = FALSE
    /\ model_url = "None"
    /\ outfile = "untouched"
    /\ exc = NoExc
    /\ outcome = "none"
    /\ errors_printed = 0
    /\ exit_code = 0
    /\ output_path = <<>>
    /\ ready_at = 0

NormNext == main

NormSpec == NormInit /\ [][NormNext]_vars

----------------------------------------------------------------------------
(* Properties *)

Elapsed == now - start

\* the value of the first key of keys that is present and non-empty in o
FirstPresent(o, keys) ==
    IF \E i \in 1..Len(keys) : Truthy(o[keys[i]])
    THEN o[keys[CHOOSE i \in 1..Len(keys) :
                    /\ Truthy(o[keys[i]])
                    /\ \A j \in 1..(i - 1) : ~Truthy(o[keys[j]])]]
    ELSE "None"

\* download_model has chosen, or failed to choose, the URL
UrlChosen == entry = "main" /\ poll_result = "returned" /\ pc # "download_model"

NoArtifactError ==
    /\ exc = [type |-> "RuntimeError", origin |-> "download"]
    /\ requests["download"] = 0
    /\ pc = "exited"

SelectsBy(keys) ==
    UrlChosen =>
        IF FirstPresent(task_data.output, keys) = "None"
        THEN NoArtifactError
        ELSE model_url = FirstPresent(task_data.output, keys)

\* C1, as stated: download_model selects the URL of the first of pbr_model,
\* base_model, model that is present and non-empty, and fails with the
\* no-artifact error, without a download request, when there is none
C1_Original == SelectsBy(<<"pbr_model", "base_model", "model">>)

\* C1, amended: the priority is model, then pbr_model, then base_model; for
\* {base_model: "A", model: "B"} the selected URL is "B"
C1_Amended == SelectsBy(<<"model", "pbr_model", "base_model">>)

C1_Witness ==
    /\ UrlChosen
    /\ task_data.output = [pbr_model |-> Absent, base_model |-> "A", model |-> "B"]
    /\ model_url = "B"
    /\ requests["download"] = 1

\* C2: in a run from the command line with --timeout T no status request is
\* issued once the elapsed time exceeds T, the limit of poll_task being T
C2_Claim ==
    (entry = "main" /\ pc = "poll_get") => Elapsed <= args.timeout

\* C3: once a terminal status is observed at the k-th fetch, poll_task has
\* made exactly k fetches and makes no more; it returns when that status is
\* success and fails otherwise, and a download request is only issued after
\* the fetch that observed success
C3_ExactlyK ==
    /\ first_terminal # 0 =>
            /\ requests["status"] = first_terminal
            /\ poll_result = (IF last_status = "success" THEN "returned" ELSE "failed")
            /\ pc \notin {"poll_loop", "poll_get", "poll_sleep"}
    /\ requests["download"] > 0 =>
            /\ first_terminal # 0
            /\ last_status = "success"

C3_Witness ==
    /\ requests["status"] = 4
    /\ first_terminal = 4
    /\ last_status = "success"
    /\ requests["download"] = 1

\* the environment has left the premise of C4: a terminal status, an error
\* response or an interrupt
NotOnlyWaiting ==
    \/ first_terminal # 0
    \/ resp.kind \notin {"none", "ok"}
    \/ exc.type = "KeyboardInterrupt"

\* C4: when no terminal status is ever returned, poll_task ends with the
\* timeout error; with instantaneous fetches it does so at an elapsed time
\* above timeout and at most timeout + poll_interval; and it returns no record
C4_TimesOut ==
    /\ []((poll_result = "timeout" /\ lat = 0) =>
                (Elapsed > timeout /\ Elapsed <= timeout + poll_interval))
    /\ [](poll_result = "returned" => first_terminal # 0)
    /\ <>(poll_result = "timeout" \/ NotOnlyWaiting)

C4_Witness ==
    /\ poll_result = "timeout"
    /\ ~NotOnlyWaiting
    /\ lat = 0
    /\ timeout = 5
    /\ poll_interval = 3
    /\ Elapsed = 6

ReturnedNothing(op) ==
    CASE op = "upload" -> ~image_token
      [] op = "task" -> ~task_id
      [] op = "status" -> task_data = NoTask /\ poll_result = "error"
      [] op = "balance" -> ~balance
      [] OTHER -> FALSE

ServiceFailure ==
    /\ exc = [type |-> "RuntimeError", origin |-> resp.op]
    /\ ReturnedNothing(resp.op)
    /\ pc = "exited"
    /\ exit_code # ExitOk

\* C5: a response with a non-zero service code makes upload_image,
\* create_task, poll_task and get_balance raise and return nothing, and no
\* request follows it
C5_ServiceCode ==
    [][/\ resp'.kind = "service_error" => ServiceFailure'
       /\ resp.kind = "service_error" => requests' = requests]_vars

C5_Witness ==
    /\ resp = [op |-> "status", kind |-> "service_error"]
    /\ requests["status"] = 2
    /\ pc = "exited"
    /\ outcome = "error"

\* the run ended in a failure: the command line was rejected, no credential,
\* the image is not a file, or an operation raised or was interrupted
RunFailed ==
    \/ ~ParseOk(args)
    \/ ~HasKey(args)
    \/ (~args.balance /\ args.image = "nofile")
    \/ exc # NoExc

BalanceInterrupted == exc = [type |-> "KeyboardInterrupt", origin |-> "balance"]

\* C6, as stated: the exit code is 1 for every run that ends in a validation
\* failure, an API error, a poll timeout or a user interrupt, and 0 otherwise
C6_Original ==
    pc = "exited" => exit_code = (IF RunFailed THEN 1 ELSE 0)

\* C6, amended: the exit code is 2 when the argument parser rejects the
\* command line; 1 for a missing credential, an image path that is not a
\* file, an API error at any stage, a poll timeout and an interrupt of the
\* pipeline; 1 or the status of a death by SIGINT for an interrupt of the
\* balance query; 0 for every other run
C6_Amended ==
    pc = "exited" =>
        IF ~ParseOk(args) THEN exit_code = 2
        ELSE IF BalanceInterrupted THEN exit_code \in {1, 130}
        ELSE exit_code = (IF RunFailed THEN 1 ELSE 0)

C6_Witness ==
    /\ pc = "exited"
    /\ args.image = "file"
    /\ args.prompt = "text"
    /\ HasKey(args)
    /\ exit_code = 2

NoPipelineRequest ==
    \A ep \in {"upload", "task", "status", "download"} : requests[ep] = 0

\* C7: a run with --balance never calls upload, create-task, poll or
\* download; it issues at most the one balance request, exactly one when the
\* command line is accepted and a credential is available, and it exits
\* with code 0 when that request succeeds
C7_BalanceOnly ==
    (entry = "main" /\ args.balance) =>
        /\ NoPipelineRequest
        /\ requests["balance"] <= 1
        /\ (pc = "exited" /\ ParseOk(args) /\ HasKey(args)) => requests["balance"] = 1
        /\ resp = [op |-> "balance", kind |-> "ok"] =>
                (pc = "exited" /\ exit_code = 0 /\ balance)

C7_Witness ==
    /\ args.balance
    /\ resp = [op |-> "balance", kind |-> "ok"]
    /\ requests["balance"] = 1
    /\ pc = "exited"
    /\ exit_code = 0

NoRequest == \A ep \in Endpoints : requests[ep] = 0

\* C8, as stated: without a credential the process exits with code 1 and no
\* request has been issued, whichever mode was selected
C8_Original ==
    (entry = "main" /\ ~HasKey(args)) =>
        /\ NoRequest
        /\ pc = "exited" => exit_code = 1

\* C8, amended: without a credential no request is ever issued and the
\* process exits with code 1 when the command line is accepted by the
\* argument parser, and with code 2 when the parser rejects it first
C8_Amended ==
    (entry = "main" /\ ~HasKey(args)) =>
        /\ NoRequest
        /\ pc \in {"main", "exited"}
        /\ pc = "exited" => exit_code = (IF ParseOk(args) THEN 1 ELSE 2)

C8_Witness ==
    /\ args.api_key = ""
    /\ args.env_key = NoKey
    /\ args.balance
    /\ ParseOk(args)
    /\ pc = "exited"
    /\ outcome = "no_key"
    /\ exit_code = 1

\* C9: every error an operation raises is caught by the handler of main: one
\* error message is printed and the process exits with a non-zero code
C9_Claim ==
    (pc = "exited" /\ exc.type \notin {"none", "KeyboardInterrupt"}) =>
        /\ outcome = "error"
        /\ errors_printed = 1
        /\ exit_code # 0

\* C10: a user interrupt during the balance query, the upload, the task
\* creation, the polling or the download ends in the "Cancelled" outcome
\* and exit code 1
C10_Claim ==
    (pc = "exited" /\ exc.type = "KeyboardInterrupt") =>
        /\ outcome = "cancelled"
        /\ exit_code = 1

\* the index of the last occurrence of c in s, 0 when there is none
LastIndexOf(s, c) ==
    LET I == {i \in 1..Len(s) : s[i] = c}
    IN IF I = {} THEN 0 ELSE CHOOSE i \in I : \A j \in I : j <= i

\* p with the last suffix of its final component replaced by ext, or extended
\* with ext when that component has no suffix
ReplaceLastSuffix(p, ext) ==
    LET k == LastIndexOf(p, "/")
        name == SubSeq(p, k + 1, Len(p))
        d == LastIndexOf(name, ".")
    IN IF 1 < d /\ d < Len(name)
       THEN SubSeq(p, 1, k + d - 1) \o ext
       ELSE p \o ext

EndsWithExt(p, f) == EndsWith(Lower(p), ExpectedExt(f))

\* str(Path(p)): p without repeated or trailing "/" and without "." components
Canonical(p) == PathStr(Root(p), Parts(p))

\* p names something: a character other than "/" and ".", or two dots in a row
HasFinalComponent(p) ==
    \/ \E i \in 1..Len(p) : p[i] \notin {"/", "."}
    \/ \E i \in 1..(Len(p) - 1) : p[i] = "." /\ p[i + 1] = "."

\* main has finished with the output path
PathSettled == entry = "main" /\ pc # "main" /\ MainDecision(args) # "get_balance"

\* whenever main produces an output path, it ends with the extension
\* without regard to case, and normalising it again changes nothing
PathFinal ==
    exc = NoExc =>
        /\ EndsWithExt(output_path, args.format)
        /\ NormalizeOutput(output_path, args.format) = output_path

\* C11, as stated: for every output path p and format f the final path is p
\* when p ends with "." + f without regard to case, and otherwise p with its
\* last suffix replaced by, or extended with, "." + f; the final path ends
\* with "." + f and normalising twice is normalising once
C11_Original ==
    PathSettled =>
        /\ exc = NoExc
        /\ output_path = (IF EndsWithExt(args.path, args.format) THEN args.path
                          ELSE ReplaceLastSuffix(args.path, ExpectedExt(args.format)))
        /\ PathFinal

\* C11, amended: the path that is rewritten is the normal form of p (without
\* repeated or trailing "/" and "." components), and a path without a final
\* component ("", ".", "/") makes main end with a ValueError, exit code 1,
\* before any request
C11_Amended ==
    PathSettled =>
        /\ IF EndsWithExt(args.path, args.format)
           THEN exc = NoExc /\ output_path = args.path
           ELSE IF HasFinalComponent(args.path)
           THEN /\ exc = NoExc
                /\ output_path = ReplaceLastSuffix(Canonical(args.path),
                                                   ExpectedExt(args.format))
           ELSE /\ exc = [type |-> "ValueError", origin |-> "main"]
                /\ pc = "exited"
                /\ exit_code = 1
                /\ NoRequest
        /\ PathFinal

C11_Witness ==
    /\ PathSettled
    /\ args.path = <<"m", "o", "d", "e", "l">>
    /\ args.format = "obj"
    /\ output_path = <<"m", "o", "d", "e", "l", ".", "o", "b", "j">>
    /\ pc = "create_task"

\* the statuses that are neither success nor failed, cancelled, unknown
KeepRetrying == Statuses \ {"success", "failed", "cancelled", "unknown"}

\* a step of poll_task that fetches a status of KeepRetrying raises nothing,
\* returns nothing and goes to sleep
RetryOnFetch ==
    (pc = "poll_get" /\ resp'.kind = "ok" /\ last_status' \in KeepRetrying) =>
        /\ pc' = "poll_sleep"
        /\ exc' = NoExc
        /\ poll_result' = "none"
        /\ task_data' = NoTask

\* after the sleep of poll_interval comes the deadline check, and after a
\* deadline check that passes comes the next fetch
SleepThenFetch ==
    /\ (pc = "poll_sleep" /\ pc' # "poll_sleep" /\ exc' = NoExc) =>
            (pc' = "poll_loop" /\ now' = now + poll_interval)
    /\ (pc = "poll_loop" /\ pc' # "poll_loop" /\ exc' = NoExc) =>
            (pc' = "poll_get" /\ requests' = requests)
    /\ (pc = "poll_loop" /\ exc' # NoExc) => poll_result' = "timeout"

\* poll_task ends in one of the given ways
EndsOnlyBy(ways) ==
    (poll_result = "none" /\ poll_result' # "none") => poll_result' \in ways

\* C12, as stated: a status that is not terminal makes poll_task sleep
\* poll_interval and fetch again, and the loop is only left by a later
\* terminal status, a transport or service error, or the timeout
C12_Original ==
    [][/\ RetryOnFetch
       /\ SleepThenFetch
       /\ EndsOnlyBy({"returned", "failed", "error", "timeout"})]_vars

\* C12, amended: the loop is also left by a user interrupt, raised as
\* KeyboardInterrupt in the fetch or in the sleep
C12_Amended ==
    [][/\ RetryOnFetch
       /\ SleepThenFetch
       /\ EndsOnlyBy({"returned", "failed", "error", "timeout", "interrupt"})
       /\ (poll_result' = "interrupt" /\ poll_result = "none") =>
                (exc'.type = "KeyboardInterrupt" /\ pc \in {"poll_get", "poll_sleep"})]_vars

C12_Witness ==
    /\ last_status = "banana"
    /\ requests["status"] = 2
    /\ pc = "poll_get"
    /\ poll_result = "none"
    /\ exc = NoExc
    /\ now = start + 2 * poll_interval

PollFailed == poll_result \in {"failed", "error", "timeout", "interrupt"}

\* C13: a pipeline run issues at most one download request, and only after
\* poll_task has observed success; a run whose poll fails issues none, and
\* a run that completes has issued exactly one
C13_OneDownload ==
    entry = "main" =>
        /\ requests["download"] <= 1
        /\ requests["download"] = 1 =>
                /\ poll_result = "returned"
                /\ last_status = "success"
                /\ task_data.status = "success"
                /\ requests["status"] >= 1
        /\ PollFailed => requests["download"] = 0
        /\ outcome = "done" => requests["download"] = 1

C13_Witness ==
    /\ args.image = "file"
    /\ outcome = "done"
    /\ requests["download"] = 1
    /\ requests["status"] = 3
    /\ last_status = "success"

\* the endpoints of the stages that come after the stage of endpoint ep
LaterStages(ep) ==
    CASE ep = "upload" -> {"task", "status", "download"}
      [] ep = "task" -> {"status", "download"}
      [] ep = "status" -> {"download"}
      [] OTHER -> {}

\* the run was aborted by the HTTP error of the last response
Aborted ==
    /\ exc = [type |-> "HTTPError", origin |-> resp.op]
    /\ pc = "exited"
    /\ exit_code # 0
    /\ \A ep \in LaterStages(resp.op) : requests[ep] = 0

\* C14: the upload and the task creation are requested at most once, and an
\* HTTP error at any stage aborts the pipeline: the failed request is not
\* repeated and no request follows it
C14_NoRetry ==
    [][/\ requests'["upload"] <= 1
       /\ requests'["task"] <= 1
       /\ (resp'.kind = "http_error" /\ resp'.op # "balance") => Aborted'
       /\ resp.kind = "http_error" => requests' = requests]_vars

C14_Witness ==
    /\ resp = [op |-> "status", kind |-> "http_error"]
    /\ requests = [upload |-> 1, task |-> 1, status |-> 3, download |-> 0,
                   balance |-> 0]
    /\ pc = "exited"
    /\ outcome = "error"

\* C15: the output path and its parent directories are touched only after
\* the upload (image pipeline), the task creation and the polling have
\* succeeded, a URL was selected and the download request was answered with
\* a transport-level success
C15_OutputUntouched ==
    outfile # "untouched" =>
        /\ args.image # "None" => (image_token /\ requests["upload"] = 1)
        /\ task_id
        /\ poll_result = "returned"
        /\ Truthy(model_url)
        /\ requests["download"] = 1
        /\ resp = [op |-> "download", kind |-> "ok"]

C15_Witness ==
    /\ args.image = "file"
    /\ outfile = "partial"
    /\ exc = [type |-> "OSError", origin |-> "download"]
    /\ pc = "exited"

\* the task reaches success on the service only after the deadline
ReadyLate == ready_at > start + timeout

StatusFetched == requests'["status"] = requests["status"] + 1

\* the deadline check comes before every fetch: no fetch is issued once the
\* elapsed time exceeds the timeout, the timeout is only raised then, a
\* success that is fetched is returned, and only success is returned
CheckBeforeFetch ==
    /\ StatusFetched => Elapsed <= timeout
    /\ (pc = "poll_loop" /\ pc' # "poll_loop") =>
            (poll_result' = "timeout" <=> Elapsed > timeout)
    /\ (StatusFetched /\ resp'.kind = "ok" /\ last_status' = "success") =>
            (poll_result' = "returned" /\ task_data'.status = "success")
    /\ poll_result' = "returned" => task_data'.status = "success"

\* C16, as stated: the deadline check precedes every status fetch, so a task
\* that reaches success only after the deadline is never returned; a success
\* fetched by the deadline is returned, and only success is returned
C16_Original ==
    [][/\ CheckBeforeFetch
       /\ ReadyLate => poll_result' # "returned"]_vars

\* C16, amended: a task that reaches success only after the deadline is
\* never returned when fetches are instantaneous; it is returned only by a
\* fetch issued by the deadline and answered after it
C16_Amended ==
    [][/\ CheckBeforeFetch
       /\ (ReadyLate /\ lat = 0) => poll_result' # "returned"
       /\ (ReadyLate /\ poll_result = "none" /\ poll_result' = "returned") =>
                /\ Elapsed <= timeout
                /\ now' > start + timeout
                /\ now' > now]_vars

C16_Witness ==
    /\ ReadyLate
    /\ timeout = 5
    /\ ready_at = 6
    /\ poll_result = "timeout"
    /\ requests["status"] = 3
    /\ last_status = "running"
====
